---- MODULE Spec2Model ----
(***************************************************************************)
(* worm: handles onto another process's virtual memory.                    *)
(*                                                                         *)
(* The repository holds two generations of the handle:                     *)
(*   "handle"        include/worm/worm.hpp, worm.inl, src/worm/worm.cpp    *)
(*                   (pid_ and a std::unique_ptr<system_handle>)           *)
(*   "basic_handle"  include/worm.hpp, src/worm.cpp                        *)
(*                   (pid_ and, on Windows, a raw void* windows_handle_)   *)
(* and each is built for one of two backends, "posix" (process_vm_readv,   *)
(* process_vm_writev, /proc/<pid>/maps) or "windows" (OpenProcess,         *)
(* ReadProcessMemory, WriteProcessMemory, EnumProcessModules).  The build  *)
(* fixes both; Init draws them.                                            *)
(*                                                                         *)
(* The program modelled constructs one handle from a process id (slot 1),   *)
(* may copy or move it into a second object, bind a value to the first,    *)
(* call either, and destroy the objects in any order.                      *)
(*                                                                         *)
(* Operations the language rejects at compile time (a member whose         *)
(* requires-clause is false, a deleted copy constructor) are steps whose   *)
(* outcome is "rejected" and which touch nothing else.                     *)
(***************************************************************************)
EXTENDS Integers, Sequences, FiniteSets, TLC

\* ------------------------------------------------------------------ bounds
\* Addresses of the target's address space.
MaxAddr == 1

\* sizeof(T) of the type the typed accessors are used with, in bytes.
SizeofT == 2

Pids == {1}
Addrs == 0..MaxAddr
Byte == {0, 1}
\* The handle objects of the program: the one it constructs and one more.
Slots == {1, 2}
Sizes == 0..SizeofT

Backends == {"posix", "windows"}
Apis == {"handle", "basic_handle"}

\* ------------------------------------------------------------------ state
VARIABLES
  backend,    \* WORM_POSIX or WORM_WINDOWS, fixed by the build
  api,        \* which generation of the handle the program is written against
  proc,       \* OS: pid -> "absent" | "denied" | "ok"
  mapped,     \* OS: pid -> addresses mapped in that process
  writable,   \* OS: pid -> addresses mapped with write permission
  mem,        \* OS: pid -> address -> byte
  native,     \* OS (Windows): native reference -> [opened, open, closes, rights, pid]
  handles,    \* slot -> handle object
  bounds,     \* the bound value: [set, h, addr]
  last        \* outcome of the last operation

vars == <<backend, api, proc, mapped, writable, mem, native, handles, bounds, last>>

env == <<backend, api, proc, mapped, writable>>

\* ------------------------------------------------------------ handle_mode
handle_mode_in == 1
handle_mode_out == 2

\* Bitwise and / or of two small non-negative integers.
RECURSIVE BitAnd(_, _)
BitAnd(a, b) ==
  IF a = 0 \/ b = 0 THEN 0
  ELSE (IF a % 2 = 1 /\ b % 2 = 1 THEN 1 ELSE 0) + 2 * BitAnd(a \div 2, b \div 2)

RECURSIVE BitOr(_, _)
BitOr(a, b) ==
  IF a = 0 THEN b
  ELSE IF b = 0 THEN a
  ELSE (IF a % 2 = 1 \/ b % 2 = 1 THEN 1 ELSE 0) + 2 * BitOr(a \div 2, b \div 2)

\* The three instantiations: ihandle, ohandle, iohandle.
ihandle == handle_mode_in
ohandle == handle_mode_out
iohandle == BitOr(handle_mode_in, handle_mode_out)
Modes == {ihandle, ohandle, iohandle}

\* static constexpr bool readable = static_cast<bool>(Mode & handle_mode::in)
readable_always(Mode) == TRUE
readable(Mode) == BitAnd(Mode, handle_mode_in) # 0

\* static constexpr bool writable = static_cast<bool>(Mode & handle_mode::out)
writable_(Mode) == BitAnd(Mode, handle_mode_out) # 0

\* ---------------------------------------------------------- access rights
\* OpenProcess's dwDesiredAccess for a mode.
AccessRights_no_operation(Mode) ==
  (IF readable(Mode) THEN {"PROCESS_VM_READ", "PROCESS_QUERY_LIMITED_INFORMATION"} ELSE {})
  \cup
  (IF writable_(Mode) THEN {"PROCESS_VM_WRITE"} ELSE {})
AccessRights(Mode) ==
  (IF readable(Mode) THEN {"PROCESS_VM_READ", "PROCESS_QUERY_LIMITED_INFORMATION"} ELSE {})
  \cup
  (IF writable_(Mode) THEN {"PROCESS_VM_OPERATION", "PROCESS_VM_WRITE"} ELSE {})

\* ------------------------------------------------------------- last result
NoRegions == <<>>
\* op: the operation; mode: the Mode of the handle type it was called on;
\* kind: "ok", "rejected" (ill-formed), "abort", or the exception thrown;
\* what, code: the exception's message and OS error code; cnt: the count
\* returned; val: the bytes read or written; regs: the regions returned;
\* sys: the OS requests issued, in order; input: the arguments.
Outcome(op, mode, kind, what, code, cnt, val, regs, sys, input) ==
  [op |-> op, mode |-> mode, kind |-> kind, what |-> what, code |-> code,
   cnt |-> cnt, val |-> val, regs |-> regs, sys |-> sys, input |-> input]

Nothing == Outcome("none", 0, "none", "", "none", 0, <<>>, NoRegions, <<>>, <<>>)

\* A call the language rejects: nothing runs, no OS request is made.
Rejected(op, mode) == Outcome(op, mode, "rejected", "", "none", 0, <<>>, NoRegions, <<>>, <<>>)

\* make_system_error(what_arg): {WORM_ERRNO, system_category}, what_arg, where
\* errno is what the failing OS call, the last one made, left in WORM_ERRNO.
make_system_error(what_arg, errno) ==
  [kind |-> "system_error", what |-> what_arg, code |-> errno]

\* ------------------------------------------------------------ handle object
NoHandle == [st |-> "none", mode |-> 0, pid |-> 0, ref |-> 0]
NoBound == [set |-> FALSE, h |-> 0, addr |-> 0]
NoNative == [opened |-> FALSE, open |-> FALSE, closes |-> 0, rights |-> {}, pid |-> 0]

Live(s) == handles[s].st = "live"

\* The smallest native reference the OS has not handed out yet (0: none left).
FreshRef ==
  IF \E r \in Slots : ~native[r].opened
  THEN CHOOSE r \in Slots : ~native[r].opened /\ \A q \in Slots : q < r => native[q].opened
  ELSE 0

\* OpenProcess(dwDesiredAccess, FALSE, pid): NULL (0) and a last-error code on
\* failure, otherwise a new native reference.
OpenProcess(rights, pid) ==
  IF pid \notin Pids \/ proc[pid] = "absent"
  THEN [ref |-> 0, err |-> "ERROR_INVALID_PARAMETER"]
  ELSE IF proc[pid] = "denied"
  THEN [ref |-> 0, err |-> "ERROR_ACCESS_DENIED"]
  ELSE [ref |-> FreshRef, err |-> "none"]

\* CloseHandle(h): closes an open reference; counts every call.
CloseHandle(ref) ==
  IF ref \in Slots
  THEN [native EXCEPT ![ref].open = FALSE, ![ref].closes = @ + 1]
  ELSE native

\* ------------------------------------------------------------------- Init
Init ==
  /\ backend \in Backends
  /\ api \in Apis
  /\ proc \in [Pids -> {"absent", "denied", "ok"}]
  /\ mapped \in [Pids -> SUBSET Addrs]
  /\ writable \in [Pids -> SUBSET Addrs]
  /\ \A p \in Pids : /\ writable[p] \subseteq mapped[p]
                     /\ proc[p] # "ok" => mapped[p] = {}
  /\ mem = [p \in Pids |-> [a \in Addrs |-> 0]]
  /\ native = [r \in Slots |-> NoNative]
  /\ handles = [s \in Slots |-> NoHandle]
  /\ bounds = NoBound
  /\ last = Nothing

\* ------------------------------------------------------------ construction
\* handle<Mode>::system_handle::system_handle(pid) and handle<Mode>::handle(pid);
\* basic_handle::basic_handle(pid, mode) in the first generation.
\* On posix no OS call is made and nothing can fail.
system_handle_unchecked(Mode, pid) ==
  IF backend = "posix"
  THEN [ok |-> TRUE, ref |-> 0, err |-> "none", sys |-> <<>>]
  ELSE LET r == OpenProcess(AccessRights(Mode), pid)
       IN [ok |-> TRUE, ref |-> r.ref, err |-> r.err, sys |-> <<"OpenProcess">>]
system_handle(Mode, pid) ==
  IF backend = "posix"
  THEN [ok |-> TRUE, ref |-> 0, err |-> "none", sys |-> <<>>]
  ELSE LET r == OpenProcess(AccessRights(Mode), pid)
       IN [ok |-> r.ref # 0, ref |-> r.ref, err |-> r.err, sys |-> <<"OpenProcess">>]

Construct(s, Mode, pid) ==
  /\ s = 1
  /\ handles[s].st = "none"
  /\ backend = "windows" => FreshRef # 0
  /\ LET r == system_handle(Mode, pid)
     IN IF r.ok
           THEN /\ handles' = [handles EXCEPT ![s] =
                      [st |-> "live", mode |-> Mode, pid |-> pid, ref |-> r.ref]]
                /\ native' = IF r.ref # 0
                             THEN [native EXCEPT ![r.ref] =
                                     [opened |-> TRUE, open |-> TRUE, closes |-> 0,
                                      rights |-> AccessRights(Mode), pid |-> pid]]
                             ELSE native
                /\ last' = Outcome("construct", Mode, "ok", "", "none", 0, <<>>,
                                   NoRegions, r.sys, <<pid>>)
           ELSE LET e == make_system_error("failed to open a process handle", r.err)
                IN /\ UNCHANGED <<handles, native>>
                   /\ last' = Outcome("construct", Mode, e.kind, e.what, e.code, 0, <<>>,
                                      NoRegions, r.sys, <<pid>>)
  /\ UNCHANGED <<env, mem, bounds>>

\* ------------------------------------------------------------- destruction
\* handle<Mode>::~handle() = default: the unique_ptr deletes the system_handle,
\* whose destructor calls CloseHandle on Windows and nothing on posix.
\* basic_handle::~basic_handle(): CloseHandle(windows_handle_) on Windows.
destructor(h) == IF backend = "windows" THEN CloseHandle(h.ref) ELSE native

Destroy(s) ==
  /\ Live(s)
  /\ native' = destructor(handles[s])
  /\ handles' = [handles EXCEPT ![s].st = "dead"]
  /\ last' = Outcome("destroy", handles[s].mode, "ok", "", "none", 0, <<>>, NoRegions,
                     IF backend = "windows" THEN <<"CloseHandle">> ELSE <<>>, <<>>)
  /\ UNCHANGED <<env, mem, bounds>>

\* ---------------------------------------------------- OS: target memory
ProcStatus(pid) == IF pid \in Pids THEN proc[pid] ELSE "absent"

\* How many of the addresses addr, addr+1, ..., addr+size-1 lie in S, counted
\* from addr up to the first one that does not.
RECURSIVE Prefix(_, _, _)
Prefix(S, addr, size) ==
  IF size = 0 \/ addr \notin S THEN 0 ELSE 1 + Prefix(S, addr + 1, size - 1)

MappedOf(pid) == IF pid \in Pids THEN mapped[pid] ELSE {}
WritableOf(pid) == IF pid \in Pids THEN writable[pid] ELSE {}

\* The n bytes of pid's memory from addr on.
Peek(pid, addr, n) == [i \in 1..n |-> mem[pid][addr + i - 1]]

\* pid's memory with the first n bytes of data stored from addr on.
Poke(pid, addr, data, n) ==
  IF n = 0 THEN mem
  ELSE [mem EXCEPT ![pid] =
          [a \in Addrs |-> IF a >= addr /\ a < addr + n THEN data[a - addr + 1] ELSE @[a]]]

\* process_vm_readv(pid, &local, 1, &remote, 1, 0): 0 for an empty request,
\* before the process is looked up; -1 and errno on failure;
\* otherwise the bytes copied, which stop at the first address that is not
\* mapped (a short count, once at least one byte was copied).
process_vm_readv(pid, addr, size) ==
  IF size = 0 THEN [ret |-> 0, err |-> "none", data |-> <<>>]
  ELSE IF ProcStatus(pid) = "absent" THEN [ret |-> -1, err |-> "ESRCH", data |-> <<>>]
  ELSE IF ProcStatus(pid) = "denied" THEN [ret |-> -1, err |-> "EPERM", data |-> <<>>]
  ELSE LET n == Prefix(MappedOf(pid), addr, size)
       IN IF n = 0 THEN [ret |-> -1, err |-> "EFAULT", data |-> <<>>]
          ELSE [ret |-> n, err |-> "none", data |-> Peek(pid, addr, n)]

\* process_vm_writev(pid, &local, 1, &remote, 1, 0): as process_vm_readv, over
\* the addresses mapped writable.
process_vm_writev(pid, addr, size) ==
  IF size = 0 THEN [ret |-> 0, err |-> "none"]
  ELSE IF ProcStatus(pid) = "absent" THEN [ret |-> -1, err |-> "ESRCH"]
  ELSE IF ProcStatus(pid) = "denied" THEN [ret |-> -1, err |-> "EPERM"]
  ELSE LET n == Prefix(WritableOf(pid), addr, size)
       IN IF n = 0 THEN [ret |-> -1, err |-> "EFAULT"]
          ELSE [ret |-> n, err |-> "none"]

\* Whether ref is an open native reference that carries the right.
Granted(ref, right) ==
  ref \in Slots /\ native[ref].open /\ right \in native[ref].rights

\* ReadProcessMemory(hProcess, base, buffer, size, &n): FALSE unless the whole
\* range is readable ("the entire area to be read must be accessible or the
\* operation fails"); n is the count copied before the failure.
ReadProcessMemory(ref, addr, size) ==
  IF ~(ref \in Slots /\ native[ref].open)
  THEN [ok |-> FALSE, n |-> 0, err |-> "ERROR_INVALID_HANDLE", data |-> <<>>]
  ELSE IF ~Granted(ref, "PROCESS_VM_READ")
  THEN [ok |-> FALSE, n |-> 0, err |-> "ERROR_ACCESS_DENIED", data |-> <<>>]
  ELSE LET pid == native[ref].pid
           n == Prefix(MappedOf(pid), addr, size)
       IN IF n = size
          THEN [ok |-> TRUE, n |-> n, err |-> "none", data |-> Peek(pid, addr, n)]
          ELSE [ok |-> FALSE, n |-> n, err |-> "ERROR_PARTIAL_COPY",
                data |-> Peek(pid, addr, n)]

\* WriteProcessMemory(hProcess, base, buffer, size, &n): as ReadProcessMemory,
\* over the addresses mapped writable.
WriteProcessMemory(ref, addr, size) ==
  IF ~(ref \in Slots /\ native[ref].open)
  THEN [ok |-> FALSE, n |-> 0, err |-> "ERROR_INVALID_HANDLE"]
  ELSE IF ~(Granted(ref, "PROCESS_VM_WRITE") /\ Granted(ref, "PROCESS_VM_OPERATION"))
  THEN [ok |-> FALSE, n |-> 0, err |-> "ERROR_ACCESS_DENIED"]
  ELSE LET n == Prefix(WritableOf(native[ref].pid), addr, size)
       IN IF n = size
          THEN [ok |-> TRUE, n |-> n, err |-> "none"]
          ELSE [ok |-> FALSE, n |-> n, err |-> "ERROR_PARTIAL_COPY"]

\* The process whose memory a transfer through h reaches (0: none).
TargetOf(h) ==
  IF backend = "posix" THEN h.pid
  ELSE IF h.ref \in Slots THEN native[h.ref].pid ELSE 0

\* ------------------------------------------------------ read_bytes / write_bytes
Returned(cnt, data, err, sys) ==
  [kind |-> "ok", what |-> "", code |-> "none", cnt |-> cnt, data |-> data,
   err |-> err, sys |-> sys, moved |-> cnt]

Thrown(e, err, sys, moved) ==
  [kind |-> e.kind, what |-> e.what, code |-> e.code, cnt |-> 0, data |-> <<>>,
   err |-> err, sys |-> sys, moved |-> moved]

\* handle<Mode>::read_bytes(src, dst, size); basic_handle::read_bytes_impl.
read_bytes_following_up(h, src, size) ==
  IF backend = "posix"
  THEN LET r == process_vm_readv(h.pid, src, size)
       IN IF r.ret >= 0
          THEN Returned(r.ret, r.data, r.err,
                        IF r.ret < size
                        THEN <<"process_vm_readv", "process_vm_readv">>
                        ELSE <<"process_vm_readv">>)
          ELSE Thrown(make_system_error("failed to read from virtual memory", r.err),
                      r.err, <<"process_vm_readv">>, 0)
  ELSE LET r == ReadProcessMemory(h.ref, src, size)
       IN IF r.ok
          THEN Returned(r.n, r.data, r.err, <<"ReadProcessMemory">>)
          ELSE Thrown(make_system_error("failed to read from virtual memory", r.err),
                      r.err, <<"ReadProcessMemory">>, r.n)
read_bytes_full_only(h, src, size) ==
  IF backend = "posix"
  THEN LET r == process_vm_readv(h.pid, src, size)
       IN IF r.ret = size
          THEN Returned(r.ret, r.data, r.err, <<"process_vm_readv">>)
          ELSE Thrown(make_system_error("failed to read from virtual memory", r.err),
                      r.err, <<"process_vm_readv">>, 0)
  ELSE LET r == ReadProcessMemory(h.ref, src, size)
       IN IF r.ok
          THEN Returned(r.n, r.data, r.err, <<"ReadProcessMemory">>)
          ELSE Thrown(make_system_error("failed to read from virtual memory", r.err),
                      r.err, <<"ReadProcessMemory">>, r.n)
read_bytes(h, src, size) ==
  IF backend = "posix"
  THEN LET r == process_vm_readv(h.pid, src, size)
       IN IF r.ret >= 0
          THEN Returned(r.ret, r.data, r.err, <<"process_vm_readv">>)
          ELSE Thrown(make_system_error("failed to read from virtual memory", r.err),
                      r.err, <<"process_vm_readv">>, 0)
  ELSE LET r == ReadProcessMemory(h.ref, src, size)
       IN IF r.ok
          THEN Returned(r.n, r.data, r.err, <<"ReadProcessMemory">>)
          ELSE Thrown(make_system_error("failed to read from virtual memory", r.err),
                      r.err, <<"ReadProcessMemory">>, r.n)

\* handle<Mode>::write_bytes(dst, src, size); basic_handle::write_bytes_impl.
\* "moved" is the count of bytes the OS stored, also when the call throws.
write_bytes_retrying(h, dst, size) ==
  IF backend = "posix"
  THEN LET r == process_vm_writev(h.pid, dst, size)
       IN IF r.ret >= 0
          THEN Returned(r.ret, <<>>, r.err, <<"process_vm_writev">>)
          ELSE Thrown(make_system_error("failed to write to virtual memory", r.err),
                      r.err, <<"process_vm_writev", "process_vm_writev">>, 0)
  ELSE LET r == WriteProcessMemory(h.ref, dst, size)
       IN IF r.ok
          THEN Returned(r.n, <<>>, r.err, <<"WriteProcessMemory">>)
          ELSE Thrown(make_system_error("failed to write to virtual memory", r.err),
                      r.err, <<"WriteProcessMemory", "WriteProcessMemory">>, r.n)
write_bytes_result_ignored(h, dst, size) ==
  IF backend = "posix"
  THEN LET r == process_vm_writev(h.pid, dst, size)
       IN IF r.ret >= 0
          THEN Returned(r.ret, <<>>, r.err, <<"process_vm_writev">>)
          ELSE Thrown(make_system_error("failed to write to virtual memory", r.err),
                      r.err, <<"process_vm_writev">>, 0)
  ELSE LET r == WriteProcessMemory(h.ref, dst, size)
       IN Returned(r.n, <<>>, r.err, <<"WriteProcessMemory">>)
write_bytes(h, dst, size) ==
  IF backend = "posix"
  THEN LET r == process_vm_writev(h.pid, dst, size)
       IN IF r.ret >= 0
          THEN Returned(r.ret, <<>>, r.err, <<"process_vm_writev">>)
          ELSE Thrown(make_system_error("failed to write to virtual memory", r.err),
                      r.err, <<"process_vm_writev">>, 0)
  ELSE LET r == WriteProcessMemory(h.ref, dst, size)
       IN IF r.ok
          THEN Returned(r.n, <<>>, r.err, <<"WriteProcessMemory">>)
          ELSE Thrown(make_system_error("failed to write to virtual memory", r.err),
                      r.err, <<"WriteProcessMemory">>, r.n)

\* The effect of a read through handle object h: nothing but the outcome.
ReadEffect_poisoning(op, s, h, addr, size, r, val) ==
  /\ last' = Outcome(op, h.mode, r.kind, r.what, r.code, r.cnt, val, NoRegions, r.sys,
                     <<addr, size>>)
  /\ handles' = IF r.kind = "ok" THEN handles ELSE [handles EXCEPT ![s].pid = 0]
  /\ UNCHANGED <<env, mem, native, bounds>>
ReadEffect(op, s, h, addr, size, r, val) ==
  /\ last' = Outcome(op, h.mode, r.kind, r.what, r.code, r.cnt, val, NoRegions, r.sys,
                     <<addr, size>>)
  /\ UNCHANGED <<env, mem, native, handles, bounds>>

\* The effect of a write through handle object h: the bytes the OS stored.
WriteEffect(op, s, h, addr, data, r) ==
  /\ last' = Outcome(op, h.mode, r.kind, r.what, r.code, r.cnt, data, NoRegions, r.sys,
                     <<addr, Len(data)>>)
  /\ mem' = IF TargetOf(h) \in Pids THEN Poke(TargetOf(h), addr, data, r.moved) ELSE mem
  /\ UNCHANGED <<env, native, handles, bounds>>

RejectEffect(op, s) ==
  /\ last' = Rejected(op, handles[s].mode)
  /\ UNCHANGED <<env, mem, native, handles, bounds>>

\* The local buffers a caller hands to write_bytes: one per size.
Buffers == {[i \in 1..n |-> 1] : n \in Sizes}
\* The values of type T the program writes, and what an uninitialized T holds.
Values == {[i \in 1..SizeofT |-> 1], [i \in 1..SizeofT |-> IF i = 1 THEN 0 ELSE 1]}
Indeterminate == [1..SizeofT -> Byte]

\* h.read_bytes(addr, dst, size)  requires readable
ReadBytes(s, addr, size) ==
  /\ Live(s)
  /\ IF readable(handles[s].mode)
     THEN LET r == read_bytes(handles[s], addr, size)
          IN ReadEffect("read_bytes", s, handles[s], addr, size, r, r.data)
     ELSE RejectEffect("read_bytes", s)

\* h.write_bytes(addr, src, size)  requires writable
WriteBytes(s, addr, data) ==
  /\ Live(s)
  /\ IF writable_(handles[s].mode)
     THEN LET r == write_bytes(handles[s], addr, Len(data))
          IN WriteEffect("write_bytes", s, handles[s], addr, data, r)
     ELSE RejectEffect("write_bytes", s)

\* ------------------------------------------------------------ typed accessor
\* handle<Mode>::read<T>(addr): T value; read_bytes(addr, &value, sizeof(value));
\* return value.  The count read_bytes returns is dropped; the bytes of value
\* that no transfer filled keep whatever the uninitialized local held (garbage).
typed_read(r, garbage) ==
  [i \in 1..SizeofT |-> IF i <= r.cnt THEN r.data[i] ELSE garbage[i]]

ReadVia(op, s, h, addr) ==
  LET r == read_bytes(h, addr, SizeofT)
  IN IF r.kind = "ok"
     THEN \E garbage \in Indeterminate :
            /\ \A i \in 1..r.cnt : garbage[i] = 0
            /\ ReadEffect(op, s, h, addr, SizeofT, r, typed_read(r, garbage))
     ELSE ReadEffect(op, s, h, addr, SizeofT, r, <<>>)

\* handle<Mode>::write<T>(addr, value): return write_bytes(addr, &value, sizeof(value)).
WriteVia_short(op, s, h, addr, value) ==
  WriteEffect(op, s, h, addr, value, write_bytes(h, addr, SizeofT - 1))
WriteVia(op, s, h, addr, value) ==
  WriteEffect(op, s, h, addr, value, write_bytes(h, addr, SizeofT))

\* h.read<T>(addr)  requires readable
Read(s, addr) ==
  /\ Live(s)
  /\ IF readable(handles[s].mode)
     THEN ReadVia("read", s, handles[s], addr)
     ELSE RejectEffect("read", s)

\* h.write<T>(addr, value)  requires writable
Write(s, addr, value) ==
  /\ Live(s)
  /\ IF writable_(handles[s].mode)
     THEN WriteVia("write", s, handles[s], addr, value)
     ELSE RejectEffect("write", s)

\* ---------------------------------------------------------------- bound
\* handle<Mode>::bind<T>(addr): bound<T>(*this, addr), a reference to the handle
\* and the address.  No requires-clause, no OS request.
Bind(s, addr) ==
  /\ Live(s)
  /\ bounds' = [set |-> TRUE, h |-> s, addr |-> addr]
  /\ last' = Outcome("bind", handles[s].mode, "ok", "", "none", 0, <<>>, NoRegions, <<>>, <<addr>>)
  /\ UNCHANGED <<env, mem, native, handles>>

\* What a call through the reference h_ reaches.  While the handle lives, the
\* handle.  After its destruction the reference dangles: the call either finds
\* the dead object's members as they were, or the process dies.
Crash(op, s) ==
  /\ last' = Outcome(op, handles[s].mode, "abort", "", "none", 0, <<>>, NoRegions, <<>>, <<>>)
  /\ UNCHANGED <<env, mem, native, handles, bounds>>

\* bound<T>::read(): h_.template read<value_type>(addr_)  requires readable
BoundRead_first_address ==
  /\ bounds.set
  /\ LET h == handles[bounds.h]
     IN IF ~readable(h.mode) THEN RejectEffect("bound_read", bounds.h)
        ELSE \/ ReadVia("bound_read", bounds.h, h, 0)
             \/ h.st = "dead" /\ Crash("bound_read", bounds.h)
BoundRead ==
  /\ bounds.set
  /\ LET h == handles[bounds.h]
     IN IF ~readable(h.mode) THEN RejectEffect("bound_read", bounds.h)
        ELSE \/ ReadVia("bound_read", bounds.h, h, bounds.addr)
             \/ h.st = "dead" /\ Crash("bound_read", bounds.h)

\* bound<T>::write(value): h_.write(addr_, value)  requires writable
BoundWrite(value) ==
  /\ bounds.set
  /\ LET h == handles[bounds.h]
     IN IF ~writable_(h.mode) THEN RejectEffect("bound_write", bounds.h)
        ELSE \/ WriteVia("bound_write", bounds.h, h, bounds.addr, value)
             \/ h.st = "dead" /\ Crash("bound_write", bounds.h)

\* ------------------------------------------------------------ copy and move
\* Neither generation declares a copy or a move constructor; both declare a
\* destructor, so no move constructor is implicitly declared and the copy
\* constructor is the implicit one: deleted when a member cannot be copied
\* (std::unique_ptr<system_handle>), memberwise otherwise (pid_, void*).
move_declared == FALSE

copy_constructible == api = "basic_handle"

\* handle b(std::move(a)): the move constructor if there is one, else the copy
\* constructor, which leaves a as it was.
move_constructible == move_declared \/ copy_constructible

FreeSlot(d) ==
  /\ handles[d].st = "none"
  /\ \A q \in Slots : q < d => handles[q].st # "none"

\* handle b(a)
Copy(d, s) ==
  /\ Live(s)
  /\ FreeSlot(d)
  /\ IF copy_constructible
     THEN /\ handles' = [handles EXCEPT ![d] = handles[s]]
          /\ last' = Outcome("copy", handles[s].mode, "ok", "", "none", 0, <<>>, NoRegions, <<>>,
                             <<d, s>>)
          /\ UNCHANGED <<env, mem, native, bounds>>
     ELSE RejectEffect("copy", s)

\* handle b(std::move(a))
Move(d, s) ==
  /\ Live(s)
  /\ FreeSlot(d)
  /\ IF ~move_constructible THEN RejectEffect("move", s)
     ELSE /\ handles' = [handles EXCEPT ![d] = handles[s],
                                        ![s] = IF move_declared
                                               THEN [@ EXCEPT !.st = "moved", !.ref = 0]
                                               ELSE @]
          /\ last' = Outcome("move", handles[s].mode, "ok", "", "none", 0, <<>>, NoRegions, <<>>,
                             <<d, s>>)
          /\ UNCHANGED <<env, mem, native, bounds>>

\* ------------------------------------------------- regions(): text helpers
\* Text is a sequence of one-character strings.  0 stands for std::string::npos.
RECURSIVE FindFrom(_, _, _)
FindFrom(str, c, i) ==
  IF i > Len(str) THEN 0
  ELSE IF str[i] = c THEN i
  ELSE FindFrom(str, c, i + 1)

\* str.find(c)
Find(str, c) == FindFrom(str, c, 1)

\* str.rfind(c)
RECURSIVE RFindFrom(_, _, _)
RFindFrom(str, c, i) ==
  IF i = 0 THEN 0
  ELSE IF str[i] = c THEN i
  ELSE RFindFrom(str, c, i - 1)

RFind(str, c) == RFindFrom(str, c, Len(str))

\* str.substr(pos) and str.substr(pos, count), pos counted from 1, count 0 for npos.
SubstrFrom(str, pos) == SubSeq(str, pos, Len(str))
SubstrUpTo(str, npos_or_index) ==
  IF npos_or_index = 0 THEN str ELSE SubSeq(str, 1, npos_or_index - 1)

\* The value of a hexadecimal digit, -1 for any other character.
HexDigit(c) ==
  CASE c = "0" -> 0 [] c = "1" -> 1 [] c = "2" -> 2 [] c = "3" -> 3 [] c = "4" -> 4
    [] c = "5" -> 5 [] c = "6" -> 6 [] c = "7" -> 7 [] c = "8" -> 8 [] c = "9" -> 9
    [] c = "a" -> 10 [] c = "b" -> 11 [] c = "c" -> 12 [] c = "d" -> 13
    [] c = "e" -> 14 [] c = "f" -> 15
    [] c = "A" -> 10 [] c = "B" -> 11 [] c = "C" -> 12 [] c = "D" -> 13
    [] c = "E" -> 14 [] c = "F" -> 15
    [] OTHER -> -1

\* The width, in bits, of unsigned long long and of address_t.  The real 64
\* is scaled down to what TLC's integers hold; overflow keeps its shape.
AddrBits == 12
AddrModulus == 2 ^ AddrBits

\* The digits of str from index i on: [v: their value, n: how many, over: whether
\* the value left the range of unsigned long long].
RECURSIVE Digits(_, _, _, _, _)
Digits(str, i, v, n, over) ==
  IF i > Len(str) \/ HexDigit(str[i]) < 0 THEN [v |-> v, n |-> n, over |-> over]
  ELSE LET d == HexDigit(str[i])
           fits == ~over /\ v <= (AddrModulus - 1 - d) \div 16
       IN Digits(str, i + 1, IF fits THEN v * 16 + d ELSE v, n + 1, ~fits)

RECURSIVE SkipSpace(_, _)
SkipSpace(str, i) ==
  IF i <= Len(str) /\ str[i] \in {" ", "\t"} THEN SkipSpace(str, i + 1) ELSE i

\* std::stoull(str, nullptr, 16): leading white space, an optional sign, an
\* optional 0x, then the longest run of hexadecimal digits; std::invalid_argument
\* when there is none, std::out_of_range when the value does not fit; a minus
\* sign negates the value in unsigned arithmetic.
stoull(str) ==
  LET i == SkipSpace(str, 1)
      signed == i <= Len(str) /\ str[i] \in {"+", "-"}
      neg == signed /\ str[i] = "-"
      j == IF signed THEN i + 1 ELSE i
      prefixed == /\ j + 2 <= Len(str)
                  /\ str[j] = "0"
                  /\ str[j + 1] \in {"x", "X"}
                  /\ HexDigit(str[j + 2]) >= 0
      r == Digits(str, IF prefixed THEN j + 2 ELSE j, 0, 0, FALSE)
  IN IF r.n = 0 THEN [kind |-> "invalid_argument", v |-> 0]
     ELSE IF r.over THEN [kind |-> "out_of_range", v |-> 0]
     ELSE [kind |-> "ok", v |-> IF neg THEN (AddrModulus - r.v) % AddrModulus ELSE r.v]

\* std::string_view const range_str(row.substr(0, first_delim_index)): a view
\* of a temporary string that is destroyed at the end of the declaration.  What
\* a later read through the view finds is the text, if the storage was left
\* alone, or whatever has been put there since.
SeenThrough(text) ==
  {text} \cup {[i \in 1..Len(text) |-> c] : c \in {"?", "1"}}

\* {name, {start, end}}: std::ranges::iota_view<address_t, address_t>{start, end}
\* requires start <= end; otherwise the behaviour is undefined: a hardened
\* standard library aborts, another stores the pair.
memory_region(name, start, end) == [name |-> name, start |-> start, end |-> end]

Enumerated(kind, what, code, regs, sys) ==
  [kind |-> kind, what |-> what, code |-> code, regs |-> regs, sys |-> sys]

\* ------------------------------------------------ regions(): posix backend
PosixSys == <<"open", "read", "close">>

\* The loop over the rows of /proc/<pid>/maps, from the rows not yet read and
\* the regions pushed so far, to the set of outcomes.  getline yields an empty
\* row at the end of the input (and on a stream that failed to open), which has
\* no space and ends the loop like any other row without one.
RECURSIVE regions_rows(_, _)
RECURSIVE regions_row(_, _, _, _)
regions_row(row, range_str, rest, acc) ==
  LET range_delim_index == Find(range_str, "-")
      start == stoull(SubstrUpTo(range_str, range_delim_index))
      end == stoull(SubstrFrom(range_str, range_delim_index + 1))
      name == SubstrFrom(row, RFind(row, " ") + 1)
  IN IF start.kind # "ok"
     THEN {Enumerated(start.kind, "stoull", "none", <<>>, PosixSys)}
     ELSE IF end.kind # "ok"
     THEN {Enumerated(end.kind, "stoull", "none", <<>>, PosixSys)}
     ELSE (IF end.v < start.v
           THEN {Enumerated("abort", "", "none", <<>>, PosixSys)} ELSE {})
          \cup regions_rows(rest, Append(acc, memory_region(name, start.v, end.v)))

regions_rows(rows, acc) ==
  IF rows = <<>> THEN {Enumerated("ok", "", "none", acc, PosixSys)}
  ELSE LET row == Head(rows)
           first_delim_index == Find(row, " ")
       IN IF first_delim_index = 0
          THEN {Enumerated("ok", "", "none", acc, PosixSys)}
          ELSE UNION {regions_row(row, range_str, Tail(rows), acc) :
                        range_str \in SeenThrough(SubSeq(row, 1, first_delim_index - 1))}

\* std::ifstream f("/proc/<pid>/maps"): the rows of the listing, or a stream in
\* the failed state, which reads as no rows, when the file cannot be opened.
OpenMaps(pid, listing) == IF ProcStatus(pid) = "ok" THEN listing ELSE <<>>

\* A file that did not open is not read: the open is the only request made.
regions_posix(h, listing) ==
  {[r EXCEPT !.sys = IF ProcStatus(h.pid) = "ok" THEN @ ELSE <<"open">>] :
     r \in regions_rows(OpenMaps(h.pid, listing), <<>>)}

\* --------------------------------------------- regions(): windows backend
\* A module of the target: its handle (the base address), image size and path.
Module(base, size, path) == [base |-> base, size |-> size, path |-> path]

\* EnumProcessModules(hProcess, ...): fails on a reference that is not open or
\* lacks the rights, and whenever the OS says so (q).
EnumProcessModules(ref, q) ==
  IF ~(ref \in Slots /\ native[ref].open) THEN [ok |-> FALSE, err |-> "ERROR_INVALID_HANDLE"]
  ELSE IF ~Granted(ref, "PROCESS_VM_READ") THEN [ok |-> FALSE, err |-> "ERROR_ACCESS_DENIED"]
  ELSE IF ~q THEN [ok |-> FALSE, err |-> "ERROR_PARTIAL_COPY"]
  ELSE [ok |-> TRUE, err |-> "none"]

\* GetModuleFileNameW(module_handle, ...): the path of a module of the CALLING
\* process; of its executable for a null handle; nothing (length 0) when the
\* calling process has no module at that address.
GetModuleFileNameW(module_handle, w) ==
  IF module_handle = 0 THEN "caller.exe"
  ELSE IF w.own /\ \E i \in 1..Len(w.filled) : w.filled[i].base = module_handle
  THEN (CHOOSE m \in {w.filled[i] : i \in 1..Len(w.filled)} : m.base = module_handle).path
  ELSE ""

\* GetModuleInformation(hProcess, module_handle, &module_info, ...); its result
\* is not looked at, so on failure module_info.SizeOfImage is whatever the
\* uninitialized local holds.
SizeOfImage(module_handle, w) ==
  IF w.info /\ \E i \in 1..Len(w.filled) : w.filled[i].base = module_handle
  THEN (CHOOSE m \in {w.filled[i] : i \in 1..Len(w.filled)} : m.base = module_handle).size
  ELSE w.garbage

WinSysLoop(n) == [i \in 1..(4 * n) |->
  CASE i % 4 = 1 -> "GetModuleFileNameW"
    [] i % 4 = 2 -> "WideCharToMultiByte"
    [] i % 4 = 3 -> "WideCharToMultiByte"
    [] OTHER -> "GetModuleInformation"]

\* The loop over the module_count slots of the buffer.
RECURSIVE regions_modules(_, _, _, _)
regions_modules(modules, i, w, acc) ==
  IF i > Len(modules)
  THEN {Enumerated("ok", "", "none", acc,
                   <<"EnumProcessModules", "EnumProcessModules">> \o WinSysLoop(Len(modules)))}
  ELSE LET base_addr == modules[i]
           end == (base_addr + SizeOfImage(base_addr, w)) % AddrModulus
           reg == memory_region(GetModuleFileNameW(base_addr, w), base_addr, end)
       IN (IF end < base_addr
           THEN {Enumerated("abort", "", "none", <<>>,
                            <<"EnumProcessModules", "EnumProcessModules">> \o WinSysLoop(i))}
           ELSE {})
          \cup regions_modules(modules, i + 1, w, Append(acc, reg))

\* w: what the OS answers during this call: count/fill succeed (q1, q2), the
\* module list at the count query (counted) and at the fill query (filled),
\* whether GetModuleInformation succeeds (info), what an uninitialized
\* SizeOfImage holds (garbage), whether the caller maps the same modules (own).
regions_windows(h, w) ==
  LET count == EnumProcessModules(h.ref, w.q1)
      module_count == Len(w.counted)
      fill == EnumProcessModules(h.ref, w.q2)
      \* std::make_unique<HMODULE[]>(module_count): value-initialized, all null;
      \* the fill query stores as many handles as fit.
      modules == [i \in 1..module_count |->
                    IF i <= Len(w.filled) THEN w.filled[i].base ELSE 0]
  IN IF ~count.ok
     THEN LET e == make_system_error(
                     "failed to count process modules during initial enumeration", count.err)
          IN {Enumerated(e.kind, e.what, e.code, <<>>, <<"EnumProcessModules">>)}
     ELSE IF ~fill.ok
     THEN LET e == make_system_error("failed to enumerate process modules", fill.err)
          IN {Enumerated(e.kind, e.what, e.code, <<>>,
                         <<"EnumProcessModules", "EnumProcessModules">>)}
     ELSE regions_modules(modules, 1, w, <<>>)

\* ------------------------------------------------------------- regions()
\* handle<Mode>::regions()  requires readable; basic_handle::regions_impl().
\* e: [listing: the rows /proc/<pid>/maps holds during the call,
\*     win: what the Windows queries answer during the call].
regions_accumulating(h, e) ==
  {[r EXCEPT !.regs = IF r.kind = "ok" /\ last.op = "regions" THEN last.regs \o @ ELSE @] :
     r \in IF backend = "posix"
           THEN regions_posix(h, e.listing) ELSE regions_windows(h, e.win)}
regions(h, e) ==
  IF backend = "posix" THEN regions_posix(h, e.listing) ELSE regions_windows(h, e.win)

Regions(s, e) ==
  /\ Live(s)
  /\ IF readable(handles[s].mode)
     THEN \E r \in regions(handles[s], e) :
            /\ last' = Outcome("regions", handles[s].mode, r.kind, r.what, r.code, 0, <<>>,
                               r.regs, r.sys,
                               IF backend = "posix" THEN e.listing ELSE <<e.win>>)
            /\ UNCHANGED <<env, mem, native, handles, bounds>>
     ELSE RejectEffect("regions", s)

\* ---------------------------------------------------- enumeration inputs
MaxRows == 2
MaxMods == 2

\* Rows as the kernel writes them: range, permissions, offset, device, inode
\* and a space, then the pathname if the mapping has one.
RowMapped == <<"1", "-", "2", " ", "r", " ", "0", " ", "0", " ", "1", " ", "/", "a">>
RowAnonymous == <<"2", "-", "3", " ", "r", " ", "0", " ", "0", " ", "0", " ">>
RowSpacedPath ==
  <<"3", "-", "4", " ", "r", " ", "0", " ", "0", " ", "1", " ", "/", "a", " ", "b">>
\* Rows the kernel does not write.
RowReversed == <<"2", "-", "1", " ", "/", "a">>
RowNotHex == <<"z", "-", "1", " ", "/", "a">>
RowNoSpace == <<"1", "-", "2">>
Rows == {RowMapped, RowAnonymous, RowSpacedPath, RowReversed, RowNotHex, RowNoSpace}

\* The listings: up to MaxRows rows, no row twice.
Listings ==
  {l \in UNION {[1..n -> Rows] : n \in 0..MaxRows} :
     \A i, j \in 1..Len(l) : i # j => l[i] # l[j]}

ModuleA == Module(16, 16, "a.dll")
ModuleB == Module(64, 32, "b.dll")
ModuleC == Module(128, 16, "c.dll")
ModulePool == <<ModuleA, ModuleB, ModuleC>>
\* The module lists: the executable's image first, then what else is loaded.
ModLists == {SubSeq(ModulePool, 1, n) : n \in 0..MaxMods}

GarbageSizes == {0, AddrModulus - 1}

\* A query that fails is the last one made, and garbage shows only where
\* GetModuleInformation failed: the answers that differ in nothing the call sees
\* are listed once.
WinAnswers ==
  {w \in [q1 : BOOLEAN, q2 : BOOLEAN, counted : ModLists, filled : ModLists,
          info : BOOLEAN, garbage : GarbageSizes, own : BOOLEAN] :
     /\ ~w.q1 => (w.q2 /\ w.counted = <<>>)
     /\ ~(w.q1 /\ w.q2) => (w.filled = <<>> /\ w.info /\ w.own)
     /\ w.info => w.garbage = 0}

Quiet == [q1 |-> TRUE, q2 |-> TRUE, counted |-> <<ModuleA>>, filled |-> <<ModuleA>>,
          info |-> TRUE, garbage |-> 0, own |-> TRUE]

\* What the OS can show one regions() call.
EnumInputs ==
  IF backend = "posix"
  THEN {[listing |-> l, win |-> Quiet] : l \in Listings}
  ELSE {[listing |-> <<>>, win |-> w] : w \in WinAnswers}

\* A small choice of them, for the specification of the whole interface.
PlainInputs ==
  {[listing |-> l, win |-> Quiet] : l \in {<<>>, <<RowMapped>>}}

Next ==
  \/ \E s \in Slots, m \in Modes, p \in Pids : Construct(s, m, p)
  \/ \E s \in Slots : Destroy(s)
  \/ \E s \in Slots, a \in Addrs, n \in Sizes : ReadBytes(s, a, n)
  \/ \E s \in Slots, a \in Addrs, d \in Buffers : WriteBytes(s, a, d)
  \/ \E s \in Slots, a \in Addrs : Read(s, a)
  \/ \E s \in Slots, a \in Addrs, v \in Values : Write(s, a, v)
  \/ \E a \in Addrs : Bind(1, a)
  \/ BoundRead
  \/ \E v \in Values : BoundWrite(v)
  \/ \E d, s \in Slots : Copy(d, s)
  \/ \E d, s \in Slots : Move(d, s)
  \/ \E s \in Slots, e \in PlainInputs : Regions(s, e)

Spec == Init /\ [][Next]_vars

\* The programs that construct a handle, enumerate and destroy it, against
\* everything the OS can show an enumeration.
EnumNext ==
  \/ \E m \in Modes, p \in Pids : Construct(1, m, p)
  \/ \E s \in Slots : Destroy(s)
  \/ \E s \in Slots, e \in EnumInputs : Regions(s, e)

\* Enumeration reads no memory of the target: its pages are left out.  The
\* enumeration modelled is that of handle<Mode>.
EnumInit == Init /\ api = "handle" /\ \A p \in Pids : mapped[p] = {}

EnumSpec == EnumInit /\ [][EnumNext]_vars

\* ================================================================ claims
ReadTransfers == {"process_vm_readv", "ReadProcessMemory"}
WriteTransfers == {"process_vm_writev", "WriteProcessMemory"}
EnumRequests == {"open", "read", "close", "EnumProcessModules", "GetModuleFileNameW",
                 "WideCharToMultiByte", "GetModuleInformation"}
ReadOps == {"read_bytes", "read", "bound_read", "regions"}
WriteOps == {"write_bytes", "write", "bound_write"}

Issued(requests) == \E i \in 1..Len(last.sys) : last.sys[i] \in requests

\* Every handle object of the program is the first one or a copy of it: the
\* members the last call went through are those of slot 1.
Called == handles[1]

\* C1  Capability gating: a write transfer is issued only through a handle whose
\* mode includes out, a read transfer or a region enumeration only through one
\* whose mode includes in, on handles and on bound values alike; a call the
\* mode does not grant is rejected and issues no OS request.
C1_CapabilityGating ==
  /\ Issued(WriteTransfers) => last.mode \in {ohandle, iohandle}
  /\ Issued(ReadTransfers \cup EnumRequests) => last.mode \in {ihandle, iohandle}
  /\ (last.op \in WriteOps /\ last.mode = ihandle) =>
        (last.kind = "rejected" /\ last.sys = <<>>)
  /\ (last.op \in ReadOps /\ last.mode = ohandle) =>
        (last.kind = "rejected" /\ last.sys = <<>>)

\* A write through a value bound to a read-only handle has been rejected.
C1_Witness ==
  last.op = "bound_write" /\ last.mode = ihandle /\ last.kind = "rejected"

\* The sizeof(T) bytes from addr on are all mapped writable in the target.
WholeWritable(addr) ==
  \A a \in addr..(addr + SizeofT - 1) : a \in WritableOf(Called.pid)

\* C2  Round-trip: on a read+write handle, when write<T>(a, v) returned normally
\* for an a whose sizeof(T) bytes are mapped and writable, a read<T>(a) that
\* follows it with no write in between returns exactly v.
C2_RoundTrip ==
  [][(/\ last.op = "write" /\ last.kind = "ok" /\ last.mode = iohandle
      /\ WholeWritable(last.input[1])
      /\ last'.op = "read" /\ last'.mode = iohandle
      /\ last'.input = last.input)
     => (last'.kind = "ok" /\ last'.val = last.val)]_vars

\* read<T>(0) has returned the value <<0, 1>>, which only a write put there.
C2_Witness ==
  /\ last.op = "read" /\ last.kind = "ok" /\ last.mode = iohandle
  /\ last.input[1] = 0 /\ WholeWritable(0)
  /\ last.val = [i \in 1..SizeofT |-> IF i = 1 THEN 0 ELSE 1]

\* What the underlying transfer call of the last read_bytes or write_bytes
\* reported: [failed, err, n].
Underlying ==
  LET addr == last.input[1]
      size == last.input[2]
  IN IF backend = "posix"
     THEN LET r == IF last.op = "read_bytes"
                   THEN process_vm_readv(Called.pid, addr, size)
                   ELSE process_vm_writev(Called.pid, addr, size)
          IN [failed |-> r.ret < 0, err |-> r.err, n |-> r.ret]
     ELSE LET r == IF last.op = "read_bytes"
                   THEN ReadProcessMemory(Called.ref, addr, size)
                   ELSE WriteProcessMemory(Called.ref, addr, size)
          IN [failed |-> ~r.ok, err |-> r.err, n |-> r.n]

Executed(ops) == last.op \in ops /\ last.kind # "rejected"

\* C3  read_bytes and write_bytes raise a std::system_error with the failing
\* call's error code and the static message exactly when the underlying
\* transfer call reports failure; otherwise they return the count that call
\* reported, whatever its relation to the requested size.
C3_IOErrorIffFailure ==
  Executed({"read_bytes", "write_bytes"}) =>
    IF Underlying.failed
    THEN /\ last.kind = "system_error"
         /\ last.code = Underlying.err
         /\ last.what = IF last.op = "read_bytes"
                        THEN "failed to read from virtual memory"
                        ELSE "failed to write to virtual memory"
    ELSE /\ last.kind = "ok"
         /\ last.cnt = Underlying.n

\* write_bytes has raised with the code of a transfer that began unmapped.
C3_Witness ==
  last.op = "write_bytes" /\ last.kind = "system_error" /\ last.code = "EFAULT"

\* The last read_bytes/write_bytes began on a byte it could transfer and its
\* range crosses into unmapped space.
Crossing ==
  /\ Executed({"read_bytes", "write_bytes"})
  /\ ProcStatus(Called.pid) = "ok"
  /\ LET addr == last.input[1]
         size == last.input[2]
         first == IF last.op = "read_bytes"
                  THEN Prefix(MappedOf(Called.pid), addr, size)
                  ELSE Prefix(WritableOf(Called.pid), addr, size)
     IN /\ first > 0
        /\ first < size
        /\ (addr + first) \notin MappedOf(Called.pid)

\* C4 as stated: such a request returns a count below the requested size and
\* does not raise, whichever backend performs the transfer.
C4_AsStated ==
  Crossing => (last.kind = "ok" /\ last.cnt < last.input[2])

\* C4  Partial transfer, amended: such a request returns, on the syscall
\* backend, a count strictly between 0 and the requested size without
\* raising; on the native-handle backend it raises IOError.
C4_PartialTransfer ==
  Crossing =>
    IF backend = "posix"
    THEN last.kind = "ok" /\ last.cnt > 0 /\ last.cnt < last.input[2]
    ELSE last.kind = "system_error"

\* On the native-handle backend a crossing write has raised ERROR_PARTIAL_COPY.
C4_Witness ==
  Crossing /\ backend = "windows" /\ last.op = "write_bytes"
           /\ last.code = "ERROR_PARTIAL_COPY"

\* The last operation constructed, or failed to construct, the handle for a
\* process id that does not exist or that the caller may not access.
ConstructedUnreachable ==
  last.op = "construct" /\ ProcStatus(last.input[1]) \in {"absent", "denied"}

\* C5 as stated: constructing a handle for such a process id fails with
\* ConstructionError and yields no usable handle.
C5_AsStated ==
  ConstructedUnreachable =>
    /\ last.kind = "system_error"
    /\ last.what = "failed to open a process handle"
    /\ handles[1].st = "none"

\* C5  Construction failure, amended: on the native-handle backend constructing
\* a handle for such a process id fails with ConstructionError (with the code
\* OpenProcess left) and yields no handle and no native reference; on the
\* identifier-only backend construction issues no OS request and succeeds.
C5_ConstructionFailure ==
  ConstructedUnreachable =>
    IF backend = "windows"
    THEN /\ last.kind = "system_error"
         /\ last.what = "failed to open a process handle"
         /\ last.code \in {"ERROR_INVALID_PARAMETER", "ERROR_ACCESS_DENIED"}
         /\ handles[1].st = "none"
         /\ \A r \in Slots : ~native[r].opened
    ELSE /\ last.kind = "ok"
         /\ last.sys = <<>>
         /\ handles[1].st = "live"

\* Construction for a process the caller may not access has failed.
C5_Witness ==
  ConstructedUnreachable /\ last.kind = "system_error"
                         /\ last.code = "ERROR_ACCESS_DENIED"

\* C6  Resource release: a native reference that was acquired is closed once,
\* at the destruction of the handle and not before (it is open as long as a
\* live handle object holds it), and nothing is closed that was not acquired.
C6_ReleasedOnce ==
  /\ \A r \in Slots : native[r].closes <= 1
  /\ \A r \in Slots : ~native[r].opened => native[r].closes = 0
  /\ \A s \in Slots :
       (Live(s) /\ handles[s].ref # 0) => native[handles[s].ref].open

\* C7  Move-only ownership: a handle can be moved and cannot be copied; a move
\* leaves the source without the reference; no two live handle objects hold
\* the same open native reference.
C7_MoveOnly ==
  /\ last.op = "copy" => last.kind = "rejected"
  /\ last.op = "move" =>
       (last.kind = "ok" /\ ~Live(last.input[2]))
  /\ \A s, t \in Slots :
       (s # t /\ Live(s) /\ Live(t) /\ handles[s].ref # 0) =>
          handles[s].ref # handles[t].ref

\* The last regions() call could not obtain the target's listing: the
\* per-process file cannot be opened, or a module query failed.
CannotList ==
  /\ Executed({"regions"})
  /\ IF backend = "posix"
     THEN ProcStatus(Called.pid) # "ok"
     ELSE \/ ~EnumProcessModules(Called.ref, last.input[1].q1).ok
          \/ ~EnumProcessModules(Called.ref, last.input[1].q2).ok

\* C8  Enumeration failure: whenever regions() cannot obtain the target's
\* listing it fails with a std::system_error instead of returning a sequence.
C8_EnumerationError ==
  CannotList => last.kind = "system_error"

\* C9  Enumeration non-negativity: whatever the listing holds, every region of
\* the sequence regions() returns has end >= start.
C9_EndNotBeforeStart ==
  (Executed({"regions"}) /\ last.kind = "ok") =>
     \A i \in 1..Len(last.regs) : last.regs[i].end >= last.regs[i].start

\* The rows of a listing before the first row without a space.
RECURSIVE RowsBeforeStop(_)
RowsBeforeStop(listing) ==
  IF listing = <<>> \/ Find(Head(listing), " ") = 0 THEN <<>>
  ELSE <<Head(listing)>> \o RowsBeforeStop(Tail(listing))

\* C10  Lenient stop: on the pseudo-file backend regions() returns without
\* raising at the end of the input or at the first row without a space, with
\* one region per row before that point, in listing order, and none for any
\* later row; an empty listing yields an empty sequence.
C10_LenientStop ==
  (Executed({"regions"}) /\ backend = "posix" /\ ProcStatus(Called.pid) = "ok") =>
     LET rows == RowsBeforeStop(last.input)
     IN /\ last.kind = "ok"
        /\ Len(last.regs) = Len(rows)
        /\ \A i \in 1..Len(rows) :
             last.regs[i].name = SubstrFrom(rows[i], RFind(rows[i], " ") + 1)

\* Whether text is one or more hexadecimal digits, and its base-16 value.
IsHexText(text) == text # <<>> /\ \A i \in 1..Len(text) : HexDigit(text[i]) >= 0

RECURSIVE HexValue(_)
HexValue(text) ==
  IF text = <<>> THEN 0
  ELSE 16 * HexValue(SubSeq(text, 1, Len(text) - 1)) + HexDigit(text[Len(text)])

\* The first token of a row that has a space, and the texts around its hyphen.
RangeToken(row) == SubSeq(row, 1, Find(row, " ") - 1)
BeforeHyphen(row) == SubSeq(RangeToken(row), 1, Find(RangeToken(row), "-") - 1)
AfterHyphen(row) ==
  SubSeq(RangeToken(row), Find(RangeToken(row), "-") + 1, Len(RangeToken(row)))

\* The row has a space and its first token is two hexadecimal numbers, each
\* within the address width, joined by a hyphen.
HasHexRange(row) ==
  /\ Find(row, " ") > 0
  /\ Find(RangeToken(row), "-") > 0
  /\ IsHexText(BeforeHyphen(row)) /\ Len(BeforeHyphen(row)) * 4 <= AddrBits
  /\ IsHexText(AfterHyphen(row)) /\ Len(AfterHyphen(row)) * 4 <= AddrBits

\* The last regions() call read a listing and returned a sequence.
Listed ==
  /\ Executed({"regions"}) /\ backend = "posix" /\ ProcStatus(Called.pid) = "ok"
  /\ last.kind = "ok"

\* C11  Row parsing: for every row that has a space and whose first token is
\* two hexadecimal numbers joined by a hyphen, the region emitted for it has
\* start and end equal to the base-16 values of the texts before and after the
\* hyphen and name equal to the text after the row's last space.
C11_RowParsing ==
  Listed =>
    \A i \in 1..Len(last.regs) :
      HasHexRange(last.input[i]) =>
        /\ last.regs[i].start = HexValue(BeforeHyphen(last.input[i]))
        /\ last.regs[i].end = HexValue(AfterHyphen(last.input[i]))
        /\ last.regs[i].name =
             SubstrFrom(last.input[i], RFind(last.input[i], " ") + 1)

\* The index of the first character after n space-separated fields of row and
\* the space that ends the last of them (0: the row has fewer).
RECURSIVE AfterFields(_, _, _)
AfterFields(row, i, n) ==
  IF n = 0 THEN i
  ELSE LET sp == FindFrom(row, " ", i)
       IN IF sp = 0 \/ sp = i THEN 0 ELSE AfterFields(row, sp + 1, n - 1)

\* The row follows <hex-start>-<hex-end> <permissions> <offset> <device>
\* <inode> [pathname]; its pathname field is what follows the inode's space.
Conforms(row) == HasHexRange(row) /\ AfterFields(row, 1, 5) > 0
Pathname(row) == SubstrFrom(row, AfterFields(row, 1, 5))

\* C12  Region name: for every row that follows the listing grammar, the
\* region emitted for it is named by the row's pathname field, and by the
\* empty string when the row has none.
C12_RegionName ==
  Listed =>
    \A i \in 1..Len(last.regs) :
      Conforms(last.input[i]) => last.regs[i].name = Pathname(last.input[i])

\* The last regions() call made a module query that failed and whose result
\* the call needed: GetModuleInformation, for a list that has modules.
ModuleQueryFailed ==
  /\ Executed({"regions"}) /\ backend = "windows"
  /\ EnumProcessModules(Called.ref, last.input[1].q1).ok
  /\ EnumProcessModules(Called.ref, last.input[1].q2).ok
  /\ last.input[1].counted # <<>>
  /\ ~last.input[1].info

\* C13  Typed-error propagation: whatever fails while an operation runs reaches
\* the caller as a std::system_error carrying the OS error code; no other kind
\* of error escapes, and no underlying query that failed is ignored.
C13_TypedErrors ==
  /\ last.kind \in {"none", "ok", "rejected", "system_error"}
  /\ last.kind = "system_error" => last.code # "none"
  /\ CannotList => last.kind = "system_error"
  /\ ModuleQueryFailed => last.kind = "system_error"

\* C14 as stated: every call of a public operation, regions() included, makes
\* at most one underlying OS request.
C14_AsStated ==
  last.kind # "rejected" => Len(last.sys) <= 1

\* C14  One request per call, amended: every construction, destruction,
\* read_bytes, write_bytes, read, write, bind and bound read/write makes at
\* most one underlying OS request (regions() makes several: it opens, reads
\* and closes the listing, or queries the module list twice and then each
\* module).
C14_OneRequestPerCall ==
  (last.kind # "rejected" /\ last.op # "regions") => Len(last.sys) <= 1

\* A write through a bound value has made its one request and failed.
C14_Witness ==
  /\ last.op = "bound_write" /\ last.kind = "system_error"
  /\ Len(last.sys) = 1

\* C15  Bound-value forwarding: bind never fails and makes no OS request; no
\* operation changes the address a value was bound with; while the handle is
\* alive, the bound value's read() and write(v) have the result or error, and
\* the effect on the target, of the handle's read<T> and write<T> at that
\* address.
C15_BoundForwarding ==
  [][/\ last'.op = "bind" =>
          (last'.kind = "ok" /\ last'.sys = <<>> /\ mem' = mem /\ bounds'.set)
     /\ (bounds.set /\ last'.op # "bind") => bounds' = bounds
     /\ (/\ bounds.set /\ Live(bounds.h)
         /\ last'.op = "bound_read" /\ last'.kind # "rejected") =>
          LET r == read_bytes(handles[bounds.h], bounds.addr, SizeofT)
          IN /\ last'.input = <<bounds.addr, SizeofT>>
             /\ last'.kind = r.kind /\ last'.code = r.code /\ last'.cnt = r.cnt
             /\ last'.sys = r.sys
             /\ \A i \in 1..r.cnt : last'.val[i] = r.data[i]
             /\ mem' = mem
     /\ (/\ bounds.set /\ Live(bounds.h)
         /\ last'.op = "bound_write" /\ last'.kind # "rejected") =>
          LET h == handles[bounds.h]
              r == write_bytes(h, bounds.addr, SizeofT)
          IN /\ last'.input = <<bounds.addr, SizeofT>>
             /\ last'.kind = r.kind /\ last'.code = r.code /\ last'.cnt = r.cnt
             /\ last'.sys = r.sys
             /\ mem' = IF TargetOf(h) \in Pids
                       THEN Poke(TargetOf(h), bounds.addr, last'.val, r.moved)
                       ELSE mem
     /\ (bounds.set /\ last'.op = "bound_read") =>
          (last'.kind = "rejected" <=> handles[bounds.h].mode = ohandle)
     /\ (bounds.set /\ last'.op = "bound_write") =>
          (last'.kind = "rejected" <=> handles[bounds.h].mode = ihandle)
    ]_vars

\* A read through a value bound at the last address has returned while the
\* handle is alive.
C15_Witness ==
  /\ bounds.set /\ Live(bounds.h) /\ bounds.addr = MaxAddr
  /\ last.op = "bound_read" /\ last.kind = "ok"

\* The rights a mode implies: query and read for in, write and operate for out.
ImpliedRights(Mode) ==
  (IF Mode \in {ihandle, iohandle}
   THEN {"PROCESS_VM_READ", "PROCESS_QUERY_LIMITED_INFORMATION"} ELSE {})
  \cup
  (IF Mode \in {ohandle, iohandle}
   THEN {"PROCESS_VM_OPERATION", "PROCESS_VM_WRITE"} ELSE {})

\* C16  Access-rights mapping: on the native-handle backend the reference a
\* handle<Mode>(pid) holds was opened with exactly the rights its Mode implies,
\* so no transfer or enumeration the handle type exposes is refused for want
\* of a right.
C16_AccessRights ==
  backend = "windows" =>
    /\ \A s \in Slots :
         handles[s].st # "none" =>
           /\ handles[s].ref \in Slots
           /\ native[handles[s].ref].rights = ImpliedRights(handles[s].mode)
    /\ Executed(ReadOps \cup WriteOps) => last.code # "ERROR_ACCESS_DENIED"

\* A write-only handle holds a reference opened with write and operate rights
\* alone, and has written through it.
C16_Witness ==
  /\ backend = "windows" /\ Live(1) /\ handles[1].mode = ohandle
  /\ native[handles[1].ref].rights = {"PROCESS_VM_OPERATION", "PROCESS_VM_WRITE"}
  /\ last.op = "write_bytes" /\ last.kind = "ok" /\ last.cnt > 0

\* C17  Single transfer: each read_bytes or write_bytes call makes exactly one
\* transfer request, of the kind its backend and direction call for, for the
\* whole range: what it returns, or raises, is what that one request reported,
\* also after a failure or a short transfer.
C17_SingleTransfer ==
  Executed({"read_bytes", "write_bytes"}) =>
    /\ Len(last.sys) = 1
    /\ last.sys[1] = IF backend = "posix"
                     THEN (IF last.op = "read_bytes"
                           THEN "process_vm_readv" ELSE "process_vm_writev")
                     ELSE (IF last.op = "read_bytes"
                           THEN "ReadProcessMemory" ELSE "WriteProcessMemory")
    /\ ~Underlying.failed => last.cnt = Underlying.n
    /\ Underlying.failed => (last.kind = "system_error" /\ last.cnt = 0)

\* read_bytes has returned a short count after its one request.
C17_Witness ==
  /\ last.op = "read_bytes" /\ last.kind = "ok"
  /\ last.cnt > 0 /\ last.cnt < last.input[2]
  /\ last.sys = <<"process_vm_readv">>

\* C18  Native-handle enumeration: if the count query or the list query fails,
\* regions() raises and returns no regions; otherwise it returns one region
\* per module handle of the list, in list order, with range
\* [base, base + image size) and the module's file path as name.
C18_NativeEnumeration ==
  (Executed({"regions"}) /\ backend = "windows") =>
    LET w == last.input[1]
    IN IF \/ ~EnumProcessModules(Called.ref, w.q1).ok
          \/ ~EnumProcessModules(Called.ref, w.q2).ok
       THEN last.kind = "system_error" /\ last.regs = <<>>
       ELSE /\ last.kind = "ok"
            /\ Len(last.regs) = Len(w.filled)
            /\ \A i \in 1..Len(w.filled) :
                 /\ last.regs[i].start = w.filled[i].base
                 /\ last.regs[i].end = w.filled[i].base + w.filled[i].size
                 /\ last.regs[i].name = w.filled[i].path

\* C19  Fresh snapshots: a regions() call leaves the handle as it was and
\* returns a sequence built from the listing as it is at that call alone: one
\* region per row read (per module slot), named (based) as that row (slot) is,
\* whatever earlier calls returned.
C19_FreshSnapshots ==
  [][(last'.op = "regions" /\ last'.kind = "ok") =>
       /\ handles' = handles
       /\ native' = native
       /\ IF backend = "posix"
          THEN \A rows \in {RowsBeforeStop(OpenMaps(Called.pid, last'.input))} :
                 /\ Len(last'.regs) = Len(rows)
                 /\ \A i \in 1..Len(rows) :
                      last'.regs[i].name = SubstrFrom(rows[i], RFind(rows[i], " ") + 1)
          ELSE LET w == last'.input[1]
               IN /\ Len(last'.regs) = Len(w.counted)
                  /\ \A i \in 1..Len(w.counted) :
                       last'.regs[i].start =
                         IF i <= Len(w.filled) THEN w.filled[i].base ELSE 0
    ]_vars

\* regions() has returned the two regions of a two-row listing.
C19_Witness ==
  /\ last.op = "regions" /\ last.kind = "ok" /\ backend = "posix"
  /\ last.input = <<RowAnonymous, RowMapped>>
  /\ Len(last.regs) = 2
  /\ last.regs[1].name = <<>> /\ last.regs[2].name = <<"/", "a">>

\* C20  No sticky failure: an operation on a handle that fails with a
\* std::system_error leaves every handle object and native reference as they
\* were; the read_bytes or write_bytes call that follows a failure makes its
\* own request and returns or raises what that request reports.
C20_NoStickyFailure ==
  [][/\ (last'.kind = "system_error" /\ last'.op # "construct") =>
          (handles' = handles /\ native' = native)
     /\ (/\ last.kind = "system_error"
         /\ last'.op \in {"read_bytes", "write_bytes"} /\ last'.kind # "rejected") =>
          /\ Len(last'.sys) = 1
          /\ IF Underlying'.failed
             THEN last'.kind = "system_error" /\ last'.code = Underlying'.err
             ELSE last'.kind = "ok" /\ last'.cnt = Underlying'.n
    ]_vars

\* A write has failed, on bytes mapped read-only, through a read+write handle
\* that is alive and whose reference is still open.
C20_Witness ==
  /\ Live(1) /\ handles[1].mode = iohandle
  /\ last.op = "write_bytes" /\ last.kind = "system_error"
  /\ last.input[1] \in MappedOf(Called.pid)
  /\ backend = "windows" => native[handles[1].ref].open

\* C21  Typed read completeness: whenever read<T>(addr) or a bound value's
\* read() returns normally, the transfer moved all sizeof(T) bytes and the value
\* returned is the target's memory at [addr, addr + sizeof(T)).
C21_TypedReadComplete ==
  (last.op \in {"read", "bound_read"} /\ last.kind = "ok") =>
     /\ last.cnt = SizeofT
     /\ last.val = Peek(TargetOf(Called), last.input[1], SizeofT)

\* C22  Bound-value lifetime: no read() or write(v) of a bound value is
\* forwarded to a handle that has been destroyed: the handle a bound value
\* refers to is alive at every operation made through the value.
C22_BoundLifetime ==
  (last.op \in {"bound_read", "bound_write"} /\ last.kind # "rejected") =>
     (bounds.set /\ Live(bounds.h))

\* C23  Enumeration under concurrent module changes: on the native-handle
\* backend, when the module list at the fill query differs from the one at the
\* count query, regions() returns no more regions than the slots allocated,
\* and each of them starts at a module handle the fill query wrote and ends
\* where the information obtained for that module says.
C23_ConcurrentModuleChange ==
  (/\ last.op = "regions" /\ last.kind = "ok" /\ backend = "windows"
   /\ last.input[1].counted # last.input[1].filled) =>
     \A w \in {last.input[1]} :
       /\ Len(last.regs) <= Len(w.counted)
       /\ \A i \in 1..Len(last.regs) :
            /\ i <= Len(w.filled)
            /\ w.info
            /\ last.regs[i].start = w.filled[i].base
            /\ last.regs[i].end = w.filled[i].base + w.filled[i].size

====
